---- MODULE Spec2Model ----
(***************************************************************************)
(* The request-resilience pipeline of the OpenAI -> NVIDIA NIM proxy:      *)
(* makeNvidiaRequest (multi-model fallback with sticky current model and   *)
(* failure counter), the preparation of the upstream request (system       *)
(* message, truncateMessages, max_tokens) and the error mapping of POST     *)
(* /v1/chat/completions.                                                    *)
(* Every request is one asynchronous task; its suspension points are the   *)
(* awaited axios.post call and the awaited setTimeout delay, so each       *)
(* action below is the code that runs between two suspension points.       *)
(***************************************************************************)
EXTENDS Integers, Sequences, FiniteSets, TLC

\* ---------------------------------------------------------------- bounds
\* Number of requests the model lets arrive (each is one handler task).
MaxRequests == 2

Requests == 1..MaxRequests

\* Longest history handed to truncateMessages on its own; it lies beyond the
\* largest finite tier threshold, so every tier is selected.
MaxHistory == 1100

\* Caller histories of every length up to this one are sent to the handler,
\* besides the lengths around the tiers' thresholds and keep values.
MaxShortHistory == 3

\* Most lines an upstream event stream carries.
MaxLines == 2

\* Largest max_tokens a caller asks for; it lies beyond the default request
\* value, which lies beyond the upper limit.
MaxTokenRequest == 12100

\* ------------------------------------------------------ program constants
PRIMARY_MODEL == "deepseek-ai/deepseek-v3.2"

FALLBACK_MODELS ==
  << "deepseek-ai/deepseek-v3.1",
     "deepseek-ai/deepseek-v3.2",
     "deepseek-ai/deepseek-v3.1-terminus",
     "deepseek-ai/deepseek-r1-distill-qwen-32b" >>

\* FALLBACK_MODELS[i] of an index outside the array is undefined in JS.
NoModel == "undefined"

ClientErrorDelay == 1000
TransportErrorDelay == 2000

\* ------------------------------------------------------------ JS values
\* An optional value: Absent for undefined, Given(v) for a value v.
Absent == << >>

Given(v) == << v >>

Min(a, b) == IF a < b THEN a ELSE b

Max(a, b) == IF a > b THEN a ELSE b

\* Array.prototype.slice(start, end): negative indices count from the end,
\* both are clamped to the array.
JsSlice(array, start, end) ==
  LET n == Len(array)
      from == IF start < 0 THEN Max(n + start, 0) ELSE Min(start, n)
      to == IF end < 0 THEN Max(n + end, 0) ELSE Min(end, n)
  IN SubSeq(array, from + 1, to)

\* ------------------------------------------------------ truncateMessages
ENABLE_SMART_TRUNCATION == TRUE

\* Infinity compares above every array length; the model needs it above the
\* lengths it builds.
Infinity == MaxHistory + 1000

TRUNCATION_TIERS ==
  [small |-> [threshold |-> 100, keep |-> 100, keepFirst |-> 0],
   medium |-> [threshold |-> 300, keep |-> 120, keepFirst |-> 10],
   large |-> [threshold |-> 1000, keep |-> 150, keepFirst |-> 15],
   huge |-> [threshold |-> Infinity, keep |-> 180, keepFirst |-> 20]]

\* SelectTier with the tiers tested in the opposite order.
SelectTier_Descending(length) ==
  IF length < TRUNCATION_TIERS.small.threshold THEN TRUNCATION_TIERS.huge
  ELSE IF length < TRUNCATION_TIERS.medium.threshold THEN TRUNCATION_TIERS.large
  ELSE IF length < TRUNCATION_TIERS.large.threshold THEN TRUNCATION_TIERS.medium
  ELSE TRUNCATION_TIERS.small

\* The tier truncateMessages selects for a history of `length` messages.
SelectTier(length) ==
  IF length < TRUNCATION_TIERS.small.threshold THEN TRUNCATION_TIERS.small
  ELSE IF length < TRUNCATION_TIERS.medium.threshold THEN TRUNCATION_TIERS.medium
  ELSE IF length < TRUNCATION_TIERS.large.threshold THEN TRUNCATION_TIERS.large
  ELSE TRUNCATION_TIERS.huge

\* truncateMessages keeping the last tier.keep messages only.
truncateMessages_TailOnly(messages) ==
  IF ~ENABLE_SMART_TRUNCATION THEN messages
  ELSE LET tier == SelectTier(Len(messages)) IN
    IF Len(messages) <= tier.keep THEN messages
    ELSE JsSlice(messages, -tier.keep, Len(messages))

\* truncateMessages without the early return for short histories.
truncateMessages_NoEarlyReturn(messages) ==
  IF ~ENABLE_SMART_TRUNCATION THEN messages
  ELSE LET tier == SelectTier(Len(messages))
           firstMessages ==
             IF tier.keepFirst > 0 THEN JsSlice(messages, 0, tier.keepFirst) ELSE << >>
           recentMessages ==
             JsSlice(messages, -(tier.keep - tier.keepFirst), Len(messages))
       IN firstMessages \o recentMessages

\* truncateMessages taking the last tier.keep messages after the first
\* tier.keepFirst ones.
truncateMessages_FullTail(messages) ==
  IF ~ENABLE_SMART_TRUNCATION THEN messages
  ELSE LET tier == SelectTier(Len(messages)) IN
    IF Len(messages) <= tier.keep THEN messages
    ELSE LET firstMessages ==
               IF tier.keepFirst > 0 THEN JsSlice(messages, 0, tier.keepFirst) ELSE << >>
             recentMessages == JsSlice(messages, -tier.keep, Len(messages))
         IN firstMessages \o recentMessages

truncateMessages(messages) ==
  IF ~ENABLE_SMART_TRUNCATION THEN messages
  ELSE LET tier == SelectTier(Len(messages)) IN
    IF Len(messages) <= tier.keep THEN messages
    ELSE LET firstMessages ==
               IF tier.keepFirst > 0 THEN JsSlice(messages, 0, tier.keepFirst) ELSE << >>
             recentMessages ==
               JsSlice(messages, -(tier.keep - tier.keepFirst), Len(messages))
         IN firstMessages \o recentMessages

\* ----------------------------------------------------- request bodies
\* A message carries its role and content; `seq` is its position in the
\* caller's list (0 for the message the handler synthesizes), which tells
\* messages of equal content apart.
SystemMessage ==
  [role |-> "system",
   content |-> "Respond naturally and directly. Do not analyze or overthink. Answer concisely and stay in character.",
   seq |-> 0]

\* A caller's history of n messages, user and assistant alternating, with a
\* system message of the caller's own at position systemAt (none when 0).
History(n, systemAt) ==
  [i \in 1..n |->
     IF i = systemAt
       THEN [role |-> "system", content |-> "caller's system prompt", seq |-> i]
       ELSE [role |-> IF i % 2 = 1 THEN "user" ELSE "assistant",
             content |-> "text", seq |-> i]]

TierSet == {TRUNCATION_TIERS.small, TRUNCATION_TIERS.medium,
            TRUNCATION_TIERS.large, TRUNCATION_TIERS.huge}

\* History lengths next to a tier's keep value or threshold.
BoundaryLengths ==
  {n \in 0..MaxHistory :
     \E t \in TierSet :
       \/ n - t.keep \in -1..1
       \/ n - t.threshold \in -1..1}

CallerLengths == (0..MaxShortHistory) \cup BoundaryLengths

\* Where the caller's own system message may sit: nowhere, first, in the
\* middle, last.
SystemPositions(n) == {0} \cup {p \in {1, (n + 1) \div 2, n} : p >= 1}

CallerHistories ==
  UNION {{History(n, p) : p \in SystemPositions(n)} : n \in CallerLengths}

\* max_tokens values a caller may ask for.
TokenRequests == {0, 1, 199, 200, 201, 4096, 7999, 8000, 8001, 12000, 100000}

\* req.body: messages is Absent when the caller sent no array, max_tokens is
\* Absent when the caller sent none.
ShortBody == [messages |-> Given(History(1, 0)), max_tokens |-> Absent]

RequestBodies ==
  [messages : {Given(h) : h \in CallerHistories} \cup {Absent}, max_tokens : {Absent}]
    \cup [messages : {Given(History(1, 0))}, max_tokens : {Given(t) : t \in TokenRequests}]

\* Array.isArray(body.messages) ? body.messages : []
CallerMessages(b) == IF b.messages = Absent THEN << >> ELSE b.messages[1]

hasSystemMessage(messages) == \E i \in DOMAIN messages : messages[i].role = "system"

\* InjectSystemMessage putting the synthesized message last.
InjectSystemMessage_Appends(messages) ==
  IF hasSystemMessage(messages) THEN messages ELSE messages \o << SystemMessage >>

\* if (!hasSystemMessage) messages = [{role: "system", ...}].concat(messages)
InjectSystemMessage(messages) ==
  IF hasSystemMessage(messages) THEN messages ELSE << SystemMessage >> \o messages

DefaultMaxTokens == 12000
MinMaxTokens == 200
MaxMaxTokens == 8000

\* body.max_tokens !== undefined ? body.max_tokens : 12000
requestedMaxTokens(b) == IF b.max_tokens # Absent THEN b.max_tokens[1] ELSE DefaultMaxTokens

\* Math.min(Math.max(requestedMaxTokens, 200), 8000)
max_tokens(b) == Min(Max(requestedMaxTokens(b), MinMaxTokens), MaxMaxTokens)

\* The same value in the handler of src/server.js:
\* Math.max(body.max_tokens ?? 12000, 200)
max_tokens_server(b) == Max(requestedMaxTokens(b), MinMaxTokens)

\* The body of an axios.post to the provider; NoRequest when none was made.
NoRequest == [model |-> "undefined", messages |-> << >>, max_tokens |-> 0, stream |-> FALSE]

\* ------------------------------------------------------------- upstream
\* A falsy response body (undefined, null or the empty string).
NoData == ""

\* Bodies the provider may send; NoData is the empty/absent one.
UpstreamBodies == {NoData, "upstream-body"}

\* Status codes the provider may answer with: success, a non-4xx status
\* below 500, two client errors (one of them the rate limit), a server error.
UpstreamStatuses == {200, 204, 404, 429, 500}

\* response.data of a call made with responseType "stream": the stream
\* object, whatever the provider sent.
StreamData == "[stream object]"

\* error.response / response of a call that got no HTTP answer at all.
NoResponse == [status |-> 0, data |-> NoData, model |-> NoModel]

\* What one axios.post can meet: an HTTP answer, or no answer (network
\* failure, timeout).
UpstreamOutcomes ==
  [status : UpstreamStatuses, data : UpstreamBodies] \cup {[status |-> 0, data |-> NoData]}

\* Conditions the provider can be in during a run.  Under "any" every call can
\* meet every outcome, so it covers all behaviours; the others single out the
\* runs in which every call meets one kind of answer.
UpstreamRegimes ==
  {"any", "client_errors", "server_errors", "no_answer", "primary_rate_limited",
   "other_statuses"}

\* The outcomes a call for `model` can meet under `regime`.
OutcomesUnder(regime, model) ==
  CASE regime = "client_errors" ->
         {o \in UpstreamOutcomes : o.status >= 400 /\ o.status < 500}
    [] regime = "server_errors" -> {o \in UpstreamOutcomes : o.status >= 500}
    [] regime = "no_answer" -> {o \in UpstreamOutcomes : o.status = 0}
    [] regime = "other_statuses" ->
         {o \in UpstreamOutcomes :
            o.status # 0 /\ o.status # 200 /\ o.status < 400}
    [] regime = "primary_rate_limited" ->
         {o \in UpstreamOutcomes :
            o.status = (IF model = PRIMARY_MODEL THEN 429 ELSE 200)}
    [] OTHER -> UpstreamOutcomes

\* validateStatus of the axios call: statuses it resolves with.
validateStatus(status) == status < 500

NoError == [message |-> "none", response |-> NoResponse]

\* new Error("All fallback models exhausted")
ExhaustedError == [message |-> "All fallback models exhausted", response |-> NoResponse]

\* The response object axios builds for an HTTP answer: with responseType
\* "stream" its data is the stream, else the parsed body.
AxiosResponse(outcome, model, streamed) ==
  [status |-> outcome.status,
   data |-> IF streamed THEN StreamData ELSE outcome.data,
   model |-> model]

\* The error axios rejects with: no response for a network failure, the
\* response attached for a status validateStatus refuses.
AxiosError(outcome, model, streamed) ==
  IF outcome.status = 0
    THEN [message |-> "Network Error", response |-> NoResponse]
    ELSE [message |-> "Request failed with status code",
          response |-> AxiosResponse(outcome, model, streamed)]

\* throw { response: response }
ThrownResponse(response) == [message |-> "undefined", response |-> response]

\* JSON.stringify of a response body; a stream object does not serialise to
\* what the provider sent.
StreamDump == "[serialised stream object]"

JsonStringify(data) == IF data = StreamData THEN StreamDump ELSE data

\* JSON.stringify(error.response.data) can throw (circular structure) when
\* the data is a stream object still attached to its socket; whether it does
\* depends on the stream axios hands out.
MayThrowOnStringify(data) == IF data = StreamData THEN {TRUE, FALSE} ELSE {FALSE}

\* ------------------------------------------------------- HTTP responses
\* Nothing was sent to the caller.
NoHttp == [status |-> 0, body |-> [kind |-> "none", payload |-> NoData]]

MissingKeyHttp ==
  [status |-> 500, body |-> [kind |-> "error", payload |-> "Missing NIM_API_KEY"]]

ServiceUnavailableHttp ==
  [status |-> 503, body |-> [kind |-> "service_unavailable",
                             payload |-> "All models temporarily unavailable"]]

RateLimitHttp ==
  [status |-> 429, body |-> [kind |-> "rate_limit_error",
                             payload |-> "Rate limit exceeded. Please wait 5-10 minutes."]]

\* ErrorHttp without the check for a missing response or body.
ErrorHttp_NoEmptyCheck(error) ==
  IF error.response.status = 429
    THEN RateLimitHttp
    ELSE [status |-> IF error.response = NoResponse THEN 500 ELSE error.response.status,
          body |-> [kind |-> "error", payload |-> JsonStringify(error.response.data)]]

\* ErrorHttp passing the upstream body through under a fixed status 500.
ErrorHttp_Status500(error) ==
  IF error.response = NoResponse \/ error.response.data = NoData
    THEN ServiceUnavailableHttp
    ELSE IF error.response.status = 429
      THEN RateLimitHttp
      ELSE [status |-> 500,
            body |-> [kind |-> "error", payload |-> JsonStringify(error.response.data)]]

\* The catch block of the chat handler.
ErrorHttp(error) ==
  IF error.response = NoResponse \/ error.response.data = NoData
    THEN ServiceUnavailableHttp
    ELSE IF error.response.status = 429
      THEN RateLimitHttp
      ELSE [status |-> error.response.status,
            body |-> [kind |-> "error", payload |-> JsonStringify(error.response.data)]]

\* What the caller gets when the handler's promise rejects: nothing from the
\* handler (Express 4 leaves the request unanswered), or the framework's
\* default error response (Express 5).
RejectedHandlerHttps ==
  {NoHttp, [status |-> 500, body |-> [kind |-> "framework_error", payload |-> "TypeError"]]}

\* The streaming success path: the upstream stream is piped to the caller.
StreamHttp(response) ==
  [status |-> 200, body |-> [kind |-> "event-stream", payload |-> response.data]]

\* The non-streaming success path of the chat handler: an empty reply is
\* replaced by a single space.
SuccessHttp(response) ==
  [status |-> 200,
   body |-> [kind |-> "chat.completion",
             payload |-> IF response.data = NoData THEN " " ELSE response.data]]

\* -------------------------------------------------- response normalizer
\* Bodies of a 200 answer to a non-streaming call, as parsed JSON: each
\* property is Absent or Given.
UpstreamContents == {Absent, Given(""), Given("Hello")}

UpstreamMessages ==
  {Absent} \cup {Given(m) : m \in [content : UpstreamContents,
                                    reasoning_content : {Absent, Given("thinking")}]}

UpstreamChoices == [message : UpstreamMessages, finish_reason : {Absent, Given("length")}]

SecondChoice ==
  [message |-> Given([content |-> Given("Second"), reasoning_content |-> Absent]),
   finish_reason |-> Given("stop")]

UpstreamChoiceLists ==
  {Absent, Given(<< >>)} \cup {Given(<< c >>) : c \in UpstreamChoices}
    \cup {Given(<< c, SecondChoice >>) : c \in UpstreamChoices}

UpstreamUsages ==
  {Absent, Given([prompt_tokens |-> 7, completion_tokens |-> 3, total_tokens |-> 10])}

CompletionBodies ==
  {Absent} \cup {Given(d) : d \in [id : {Absent, Given("cmpl-1")},
                                    choices : UpstreamChoiceLists,
                                    usage : UpstreamUsages]}

\* data.choices[0], undefined when any link of the chain is missing.
FirstChoice(data) ==
  IF data = Absent THEN Absent
  ELSE IF data[1].choices = Absent THEN Absent
  ELSE IF data[1].choices[1] = << >> THEN Absent
  ELSE Given(data[1].choices[1][1])

FirstMessage(data) ==
  IF FirstChoice(data) = Absent THEN Absent ELSE FirstChoice(data)[1].message

\* a || b for a string a: b when a is undefined or empty.
StringOr(a, b) == IF a # Absent /\ a[1] # "" THEN a[1] ELSE b

\* a || b for an object a.
ObjectOr(a, b) == IF a # Absent THEN a[1] ELSE b

DefaultUsage == [prompt_tokens |-> 10, completion_tokens |-> 50, total_tokens |-> 60]

\* The openaiResponse object of the chat handler (its `created`, the
\* upstream's or the clock's, is left out).
openaiResponse(data, requestedModel) ==
  LET reply == StringOr(IF FirstMessage(data) = Absent
                          THEN Absent ELSE FirstMessage(data)[1].content, "")
  IN [id |-> StringOr(IF data = Absent THEN Absent ELSE data[1].id, "chatcmpl-Date.now()"),
      object |-> "chat.completion",
      model |-> StringOr(requestedModel, "gpt-3.5-turbo"),
      choices |-> << [index |-> 0,
                      message |-> [role |-> "assistant",
                                   content |-> StringOr(Given(reply), " ")],
                      finish_reason |->
                        StringOr(IF FirstChoice(data) = Absent
                                   THEN Absent ELSE FirstChoice(data)[1].finish_reason,
                                 "stop")] >>,
      usage |-> ObjectOr(IF data = Absent THEN Absent ELSE data[1].usage, DefaultUsage)]

SHOW_REASONING == FALSE

MODEL == "deepseek-ai/deepseek-v3.1"

\* The object handleChat of src/server.js passes to res.json (without its
\* `created`).
handleChatResponse(data, requestedModel) ==
  LET content == StringOr(IF FirstMessage(data) = Absent
                            THEN Absent ELSE FirstMessage(data)[1].content, "")
      reasoning == StringOr(IF FirstMessage(data) = Absent
                              THEN Absent ELSE FirstMessage(data)[1].reasoning_content, "")
      fullContent == IF SHOW_REASONING /\ reasoning # ""
                       THEN "<think>\n" \o reasoning \o "\n</think>\n\n" \o content
                       ELSE content
  IN [id |-> "chatcmpl-Date.now()",
      object |-> "chat.completion",
      model |-> StringOr(requestedModel, MODEL),
      choices |-> << [index |-> 0,
                      message |-> [role |-> "assistant", content |-> fullContent],
                      finish_reason |->
                        StringOr(IF FirstChoice(data) = Absent
                                   THEN Absent ELSE FirstChoice(data)[1].finish_reason,
                                 "stop")] >>,
      usage |-> ObjectOr(IF data = Absent THEN Absent ELSE data[1].usage,
                         [prompt_tokens |-> 0, completion_tokens |-> 0, total_tokens |-> 0])]

\* --------------------------------------------------- streaming normalizer
\* The upstream event stream is a sequence of bytes, cut into chunks at any
\* byte.  A run of ASCII bytes that the handler treats as a unit stands as
\* one element (decoding ASCII is bytewise, so a cut inside such a run acts
\* like a cut at its edge); the two bytes of a two-byte UTF-8 character are
\* two elements.
NL == "\n"
DataPrefix == "data: "
DoneMark == "[DONE]"
Garbage == "not json"
JOpen == "{choices:[{delta:{"
JReasoningOpen == "reasoning_content:'"
JContentOpen == "content:'"
JQuote == "'"
JClose == "}}]}"
JNoDelta == "{id:1}"
Letter == "a"
LeadByte == "0xC3"
ContByte == "0xA9"

\* Characters of a decoded string: the two-byte character, and U+FFFD, which
\* the decoder puts for bytes that are no complete character.
TwoByteChar == "U+00E9"
Replacement == "U+FFFD"

ThinkOpen == "<think>\n"
ThinkClose == "\n</think>\n\n"

\* chunk.toString(): UTF-8 decoding of one chunk on its own.
RECURSIVE Decode(_)
Decode(bytes) ==
  IF bytes = << >> THEN << >>
  ELSE IF bytes[1] = LeadByte
    THEN IF Len(bytes) >= 2 /\ bytes[2] = ContByte
           THEN << TwoByteChar >> \o Decode(SubSeq(bytes, 3, Len(bytes)))
           ELSE << Replacement >> \o Decode(Tail(bytes))
    ELSE IF bytes[1] = ContByte
      THEN << Replacement >> \o Decode(Tail(bytes))
      ELSE << bytes[1] >> \o Decode(Tail(bytes))

\* Index of the first occurrence of c in s, 0 when there is none.
IndexOf(s, c) ==
  IF \E i \in DOMAIN s : s[i] = c
    THEN CHOOSE i \in DOMAIN s : s[i] = c /\ \A j \in 1..(i - 1) : s[j] # c
    ELSE 0

\* buffer.split('\n'): the parts between the newlines, the last part being
\* what follows the last newline.
RECURSIVE SplitLines(_)
SplitLines(s) ==
  IF IndexOf(s, NL) = 0 THEN << s >>
  ELSE << SubSeq(s, 1, IndexOf(s, NL) - 1) >>
         \o SplitLines(SubSeq(s, IndexOf(s, NL) + 1, Len(s)))

\* Characters a JSON string of the model may hold.
TextChars == {Letter, TwoByteChar, Replacement, DoneMark}

IsText(t) == \A i \in DOMAIN t : t[i] \in TextChars

\* JSON.parse of the properties of a delta object: Absent when it throws.
ParseDelta(f) ==
  LET hasReasoning == f # << >> /\ f[1] = JReasoningOpen
      reasoningEnd == IF hasReasoning THEN IndexOf(f, JQuote) ELSE 0
      afterReasoning == IF hasReasoning THEN SubSeq(f, reasoningEnd + 1, Len(f)) ELSE f
      hasContent == afterReasoning # << >> /\ afterReasoning[1] = JContentOpen
      contentEnd == IF hasContent THEN IndexOf(afterReasoning, JQuote) ELSE 0
      afterContent == IF hasContent
                        THEN SubSeq(afterReasoning, contentEnd + 1, Len(afterReasoning))
                        ELSE afterReasoning
      reasoningText == SubSeq(f, 2, reasoningEnd - 1)
      contentText == SubSeq(afterReasoning, 2, contentEnd - 1)
  IN IF /\ hasReasoning => (reasoningEnd > 0 /\ IsText(reasoningText))
        /\ hasContent => (contentEnd > 0 /\ IsText(contentText))
        /\ afterContent = << >>
       THEN Given([delta |->
                     Given([reasoning_content |->
                              IF hasReasoning THEN Given(reasoningText) ELSE Absent,
                            content |-> IF hasContent THEN Given(contentText) ELSE Absent])])
       ELSE Absent

\* JSON.parse(line.slice(6)): the parsed event, Absent when it throws.
ParsePayload(payload) ==
  IF payload = << JNoDelta >> THEN Given([delta |-> Absent])
  ELSE IF Len(payload) >= 2 /\ payload[1] = JOpen /\ payload[Len(payload)] = JClose
    THEN ParseDelta(SubSeq(payload, 2, Len(payload) - 1))
    ELSE Absent

\* A JS string is truthy when it is there and not empty.
Truthy(text) == text # Absent /\ text[1] # << >>

\* One res.write: a line passed on as it is (`line` and the newlines after
\* it), or an event serialised again (`delta`, Absent for an event without).
RawWrite(line, end) == [kind |-> "raw", line |-> line, delta |-> Absent, end |-> end]

EventWrite(delta) == [kind |-> "event", line |-> << >>, delta |-> delta, end |-> "\n\n"]

\* The delta the handler forwards with SHOW_REASONING off.
StripReasoning(delta) ==
  [reasoning_content |-> Absent,
   content |-> Given(IF Truthy(delta.content) THEN delta.content[1] ELSE << >>)]

\* The delta the handler forwards with SHOW_REASONING on, and reasoningStarted
\* after it.
FuseReasoning(delta, started) ==
  LET reasoning == delta.reasoning_content
      content == delta.content
      opened == IF Truthy(reasoning) /\ ~started
                  THEN << ThinkOpen >> \o reasoning[1]
                  ELSE IF Truthy(reasoning) THEN reasoning[1] ELSE << >>
      startedThen == started \/ Truthy(reasoning)
      combinedContent ==
        IF Truthy(content) /\ startedThen
          THEN opened \o << ThinkClose >> \o content[1]
          ELSE IF Truthy(content) THEN opened \o content[1] ELSE opened
  IN [delta |-> IF combinedContent # << >>
                  THEN [reasoning_content |-> Absent, content |-> Given(combinedContent)]
                  ELSE delta,
      started |-> startedThen /\ ~Truthy(content)]

\* The body of lines.forEach: what the handler writes for one line, and
\* reasoningStarted after it.
ProcessLine(line, started, show) ==
  IF line = << >> \/ line[1] # DataPrefix
    THEN [writes |-> << >>, started |-> started]
  ELSE IF \E i \in DOMAIN line : line[i] = DoneMark
    THEN [writes |-> << RawWrite(line, "\n\n") >>, started |-> started]
  ELSE LET data == ParsePayload(Tail(line)) IN
    IF data = Absent
      THEN [writes |-> << RawWrite(line, "\n") >>, started |-> started]
    ELSE IF data[1].delta = Absent
      THEN [writes |-> << EventWrite(Absent) >>, started |-> started]
    ELSE IF show
      THEN [writes |-> << EventWrite(Given(FuseReasoning(data[1].delta[1], started).delta)) >>,
            started |-> FuseReasoning(data[1].delta[1], started).started]
      ELSE [writes |-> << EventWrite(Given(StripReasoning(data[1].delta[1]))) >>,
            started |-> started]

\* lines.forEach over the complete lines of a chunk.
RECURSIVE ProcessLines(_, _, _)
ProcessLines(lines, started, show) ==
  IF lines = << >> THEN [writes |-> << >>, started |-> started]
  ELSE LET first == ProcessLine(lines[1], started, show)
           rest == ProcessLines(Tail(lines), first.started, show)
       IN [writes |-> first.writes \o rest.writes, started |-> rest.started]

\* The 'data' listener of handleChat applied to one chunk.
OnChunk(chunk, buf, started, show) ==
  LET parts == SplitLines(buf \o Decode(chunk))
      done == ProcessLines(SubSeq(parts, 1, Len(parts) - 1), started, show)
  IN [buffer |-> parts[Len(parts)], writes |-> done.writes, started |-> done.started]

\* ------------------------------------------------ session-memory variant
MAX_RECENT_MESSAGES == 100

\* if (session.messages.length > 50)
SummaryThreshold == 50

\* req.body?.max_tokens ?? 2048
SessionDefaultMaxTokens == 2048

SESSION_MODEL == "deepseek-ai/deepseek-v3"

\* req.body?.session_id || "default"
SessionIds == {"default", "session-1"}

\* How many messages a request brings: none, one, and the numbers that take
\* an empty session to the summary threshold and beyond MAX_RECENT_MESSAGES.
BatchSizes == {0, 1, SummaryThreshold, MAX_RECENT_MESSAGES + 1}

\* The messages of request r's body; the k-th one's text is told from every
\* other text by << r, k >>.  The empty text is << >>.
IncomingMessages(r, n) ==
  [k \in 1..n |-> [role |-> IF k % 2 = 1 THEN "user" ELSE "assistant", content |-> << r, k >>]]

NoSessionRequest == [session_id |-> "", messages |-> << >>]

NewSession == [summary |-> << >>, messages |-> << >>]

\* `${m.role}: ${m.content}`
SummaryLine(m) == << m.role, ": ", m.content >>

\* .map(...).join("\n"): the lines of the summary text.
Summarize(messages) == [i \in DOMAIN messages |-> SummaryLine(messages[i])]

\* The messages array sent upstream: the summary as a system message when
\* there is one, the recent messages, the incoming ones.
combinedContext(session, incoming) ==
  (IF session.summary # << >>
     THEN << [role |-> "system",
              content |-> << "Memory Summary of previous conversation: " >>
                            \o session.summary] >>
     ELSE << >>)
    \o JsSlice(session.messages, -MAX_RECENT_MESSAGES, Len(session.messages))
    \o incoming

\* response.data?.choices?.[0]?.message?.content ?? ""
SessionReply(r, outcome) == IF outcome.data = NoData THEN << >> ELSE << r, 0 >>

\* "Save to session memory" and "Update session summary".
SaveToSession(session, incoming, reply) ==
  LET pushed == session.messages \o incoming
                  \o << [role |-> "assistant", content |-> reply] >>
  IN IF Len(pushed) > SummaryThreshold
       THEN [summary |-> Summarize(JsSlice(pushed, 0, Len(pushed) - MAX_RECENT_MESSAGES)),
             messages |-> JsSlice(pushed, -MAX_RECENT_MESSAGES, Len(pushed))]
       ELSE [summary |-> session.summary, messages |-> pushed]

\* What the axios.post of this variant can meet: a 200 with or without a
\* reply, a client error, no answer.
SessionOutcomes == {o \in UpstreamOutcomes : o.status \in {0, 200, 404}}

\* axios resolves for a status of 200..299 and rejects otherwise.
defaultValidateStatus(status) == status >= 200 /\ status < 300

SessionSuccessHttp ==
  [status |-> 200, body |-> [kind |-> "chat.completion", payload |-> "reply"]]

\* res.status(error.response?.status || 500).json({error: ...})
SessionErrorHttp(outcome) ==
  [status |-> IF outcome.status # 0 THEN outcome.status ELSE 500,
   body |-> [kind |-> "error",
             payload |-> IF outcome.status # 0 /\ outcome.data # NoData
                           THEN outcome.data ELSE "error.message"]]

\* ---------------------------------------------------------------- state
VARIABLES
  upstream,        \* the provider's condition during the run
  API_KEY,         \* process.env.NIM_API_KEY ("" when missing)
  currentModel,    \* process-wide: model tried first by the next dispatch
  failedAttempts,  \* process-wide failure counter
  pc,              \* per request: "idle", "post", "delay", "done"
  attemptNum,      \* per request: attemptNum of the running makeNvidiaRequest frame
  modelToUse,      \* per request: modelToUse of that frame
  stream,          \* per request: body.stream || false
  delay,           \* per request: milliseconds of the pending setTimeout
  calls,           \* per request: models of the axios.post calls issued so far
  returned,        \* per request: response makeNvidiaRequest returned
  thrown,          \* per request: error the handler's catch received
  http,            \* per request: status and body sent to the caller
  body,            \* req.body of the requests of the run
  nimRequest,      \* per request: body of the latest axios.post
  applied,         \* the function applied on its own ("none" when none is)
  argument,        \* its argument
  result,          \* its return value (Absent until it returned)
  handler,         \* the code that serves the stream ("none" when none is served)
  text,            \* the bytes the upstream stream carries
  delivered,       \* how many of them reached the 'data' listener so far
  buffer,          \* buffer of the 'data' listener
  reasoningStarted,\* reasoningStarted of the 'data' listener
  written,         \* the res.write calls so far
  outbound,        \* the response stream: "open" or "closed"
  source,          \* the upstream stream: "flowing", "ended" or "errored"
  sessions,        \* session-memory variant: the sessions object
  sessionRequest   \* session-memory variant, per request: session id and messages of req.body

\* The state of the server and of its requests.
serverVars == << upstream, API_KEY, currentModel, failedAttempts, pc, attemptNum, modelToUse,
                 stream, delay, calls, returned, thrown, http, body, nimRequest >>

\* The state of a function applied on its own.
functionVars == << applied, argument, result >>

\* The state of one streamed response.
streamVars == << handler, text, delivered, buffer, reasoningStarted, written, outbound, source >>

\* The state of the session-memory variant, next to pc and http.
sessionVars == << sessions, sessionRequest >>

vars == << serverVars, functionVars, streamVars, sessionVars >>

\* The server after startup, no request received yet.
InitServer ==
  /\ upstream \in UpstreamRegimes
  /\ API_KEY \in {"", "nvapi-key"}
  /\ currentModel = PRIMARY_MODEL
  /\ failedAttempts = 0
  /\ pc = [r \in Requests |-> "idle"]
  /\ attemptNum = [r \in Requests |-> 0]
  /\ modelToUse = [r \in Requests |-> NoModel]
  /\ stream = [r \in Requests |-> FALSE]
  /\ delay = [r \in Requests |-> 0]
  /\ calls = [r \in Requests |-> << >>]
  /\ returned = [r \in Requests |-> NoResponse]
  /\ thrown = [r \in Requests |-> NoError]
  /\ http = [r \in Requests |-> NoHttp]
  /\ nimRequest = [r \in Requests |-> NoRequest]

NoFunction == applied = "none" /\ argument = Absent /\ result = Absent

NoSession ==
  /\ sessions = [id \in SessionIds |-> Absent]
  /\ sessionRequest = [r \in Requests |-> NoSessionRequest]

NoStream ==
  /\ handler = "none"
  /\ text = << >>
  /\ delivered = 0
  /\ buffer = << >>
  /\ reasoningStarted = FALSE
  /\ written = << >>
  /\ outbound = "open"
  /\ source = "flowing"

\* Runs in which every request carries the same short body.
Init == InitServer /\ body = ShortBody /\ NoFunction /\ NoStream /\ NoSession

\* Runs in which the requests carry any of the bodies.
InitHandler == InitServer /\ body \in RequestBodies /\ NoFunction /\ NoStream /\ NoSession

\* ----------------------------------------------------- makeNvidiaRequest
\* ResolveModel indexing FALLBACK_MODELS[attemptNum] instead of [attemptNum - 1].
ResolveModel_OffByOne(attempt, current) ==
  IF attempt = 0 THEN current
  ELSE IF attempt < Len(FALLBACK_MODELS) THEN FALLBACK_MODELS[attempt + 1]
  ELSE NoModel

\* const modelToUse = attemptNum === 0 ? currentModel : FALLBACK_MODELS[attemptNum - 1]
ResolveModel(attempt, current) ==
  IF attempt = 0 THEN current
  ELSE IF attempt - 1 < Len(FALLBACK_MODELS) THEN FALLBACK_MODELS[attempt]
  ELSE NoModel

\* The handler's catch block receives `error`: it logs the error, which
\* stringifies error.response.data when there is a response, and answers the
\* caller; when the logging throws, the handler's promise rejects.
HandlerCatch(r, error) ==
  /\ pc' = [pc EXCEPT ![r] = "done"]
  /\ thrown' = [thrown EXCEPT ![r] = error]
  /\ \E throws \in (IF error.response = NoResponse
                      THEN {FALSE} ELSE MayThrowOnStringify(error.response.data)) :
       IF throws
         THEN \E h \in RejectedHandlerHttps : http' = [http EXCEPT ![r] = h]
         ELSE http' = [http EXCEPT ![r] = ErrorHttp(error)]
  /\ delay' = [delay EXCEPT ![r] = 0]
  /\ UNCHANGED << returned >>

\* The handler receives the response makeNvidiaRequest returned and sends
\* the completion.
HandlerReturn(r, response) ==
  /\ pc' = [pc EXCEPT ![r] = "done"]
  /\ returned' = [returned EXCEPT ![r] = response]
  /\ http' = [http EXCEPT ![r] =
                IF stream[r] THEN StreamHttp(response) ELSE SuccessHttp(response)]
  /\ UNCHANGED << thrown, delay >>

\* EnterAttempt that leaves attemptNum of the frame as it was.
EnterAttempt_KeepsIndex(r, messages, maxTokens, streamed, attempt) ==
  LET model == ResolveModel(attempt, currentModel) IN
  IF model = NoModel
    THEN /\ HandlerCatch(r, ExhaustedError)
         /\ UNCHANGED << attemptNum, modelToUse, calls, nimRequest >>
    ELSE /\ pc' = [pc EXCEPT ![r] = "post"]
         /\ attemptNum' = attemptNum
         /\ modelToUse' = [modelToUse EXCEPT ![r] = model]
         /\ calls' = [calls EXCEPT ![r] = Append(@, model)]
         /\ nimRequest' = [nimRequest EXCEPT ![r] =
                             [model |-> model, messages |-> messages,
                              max_tokens |-> maxTokens, stream |-> streamed]]
         /\ delay' = [delay EXCEPT ![r] = 0]
         /\ UNCHANGED << returned, thrown, http >>

\* makeNvidiaRequest(..., attempt) up to its await of axios.post: resolve the
\* model, throw when none resolves, else issue the call.
EnterAttempt(r, messages, maxTokens, streamed, attempt) ==
  LET model == ResolveModel(attempt, currentModel) IN
  IF model = NoModel
    THEN /\ HandlerCatch(r, ExhaustedError)
         /\ UNCHANGED << attemptNum, modelToUse, calls, nimRequest >>
    ELSE /\ pc' = [pc EXCEPT ![r] = "post"]
         /\ attemptNum' = [attemptNum EXCEPT ![r] = attempt]
         /\ modelToUse' = [modelToUse EXCEPT ![r] = model]
         /\ calls' = [calls EXCEPT ![r] = Append(@, model)]
         /\ nimRequest' = [nimRequest EXCEPT ![r] =
                             [model |-> model, messages |-> messages,
                              max_tokens |-> maxTokens, stream |-> streamed]]
         /\ delay' = [delay EXCEPT ![r] = 0]
         /\ UNCHANGED << returned, thrown, http >>

\* RetryAfter that counts the failure down.
RetryAfter_Decrements(r, ms) ==
  /\ failedAttempts' = failedAttempts - 1
  /\ pc' = [pc EXCEPT ![r] = "delay"]
  /\ delay' = [delay EXCEPT ![r] = ms]
  /\ UNCHANGED << currentModel, returned, thrown, http >>

\* RetryAfter writing back a count the request keeps of its own failures.
RetryAfter_WritesOwnCount(r, ms) ==
  /\ failedAttempts' = attemptNum[r] + 1
  /\ pc' = [pc EXCEPT ![r] = "delay"]
  /\ delay' = [delay EXCEPT ![r] = ms]
  /\ UNCHANGED << currentModel, returned, thrown, http >>

\* failedAttempts++ followed by the await of setTimeout(resolve, ms).
RetryAfter(r, ms) ==
  /\ failedAttempts' = failedAttempts + 1
  /\ pc' = [pc EXCEPT ![r] = "delay"]
  /\ delay' = [delay EXCEPT ![r] = ms]
  /\ UNCHANGED << currentModel, returned, thrown, http >>

\* RequestCatch that falls back to the primary model when it gives up.
RequestCatch_ResetsModel(r, error) ==
  IF attemptNum[r] < Len(FALLBACK_MODELS)
    THEN RetryAfter(r, TransportErrorDelay)
    ELSE /\ HandlerCatch(r, error)
         /\ currentModel' = PRIMARY_MODEL
         /\ UNCHANGED << failedAttempts >>

\* RequestCatch retrying while attemptNum <= FALLBACK_MODELS.length.
RequestCatch_RetryPastEnd(r, error) ==
  IF attemptNum[r] <= Len(FALLBACK_MODELS)
    THEN RetryAfter(r, TransportErrorDelay)
    ELSE /\ HandlerCatch(r, error)
         /\ UNCHANGED << currentModel, failedAttempts >>

\* The catch block of makeNvidiaRequest.
RequestCatch(r, error) ==
  IF attemptNum[r] < Len(FALLBACK_MODELS)
    THEN RetryAfter(r, TransportErrorDelay)
    ELSE /\ HandlerCatch(r, error)
         /\ UNCHANGED << currentModel, failedAttempts >>

\* OnResponse that never updates Current Model.
OnResponse_NoPromotion(r, response) ==
  IF response.status = 200
    THEN /\ failedAttempts' = 0
         /\ currentModel' = currentModel
         /\ HandlerReturn(r, response)
    ELSE IF response.status >= 400 /\ response.status < 500
      THEN IF attemptNum[r] < Len(FALLBACK_MODELS)
             THEN RetryAfter(r, ClientErrorDelay)
             ELSE RequestCatch(r, ThrownResponse(response))
      ELSE RequestCatch(r, ThrownResponse(response))

\* OnResponse that leaves the Failure Counter alone on success.
OnResponse_NoReset(r, response) ==
  IF response.status = 200
    THEN /\ failedAttempts' = failedAttempts
         /\ currentModel' = IF modelToUse[r] # currentModel THEN modelToUse[r] ELSE currentModel
         /\ HandlerReturn(r, response)
    ELSE IF response.status >= 400 /\ response.status < 500
      THEN IF attemptNum[r] < Len(FALLBACK_MODELS)
             THEN RetryAfter(r, ClientErrorDelay)
             ELSE RequestCatch(r, ThrownResponse(response))
      ELSE RequestCatch(r, ThrownResponse(response))

\* OnResponse that takes the new Current Model from the response body.
OnResponse_ModelFromBody(r, response) ==
  IF response.status = 200
    THEN /\ failedAttempts' = 0
         /\ currentModel' = IF modelToUse[r] # currentModel THEN response.data ELSE currentModel
         /\ HandlerReturn(r, response)
    ELSE IF response.status >= 400 /\ response.status < 500
      THEN IF attemptNum[r] < Len(FALLBACK_MODELS)
             THEN RetryAfter(r, ClientErrorDelay)
             ELSE RequestCatch(r, ThrownResponse(response))
      ELSE RequestCatch(r, ThrownResponse(response))

\* OnResponse that waits as long after a client error as after a transport
\* error.
OnResponse_LongClientDelay(r, response) ==
  IF response.status = 200
    THEN /\ failedAttempts' = 0
         /\ currentModel' = IF modelToUse[r] # currentModel THEN modelToUse[r] ELSE currentModel
         /\ HandlerReturn(r, response)
    ELSE IF response.status >= 400 /\ response.status < 500
      THEN IF attemptNum[r] < Len(FALLBACK_MODELS)
             THEN RetryAfter(r, TransportErrorDelay)
             ELSE RequestCatch(r, ThrownResponse(response))
      ELSE RequestCatch(r, ThrownResponse(response))

\* OnResponse that takes every 2xx status for a success.
OnResponse_Any2xxSucceeds(r, response) ==
  IF response.status >= 200 /\ response.status < 300
    THEN /\ failedAttempts' = 0
         /\ currentModel' = IF modelToUse[r] # currentModel THEN modelToUse[r] ELSE currentModel
         /\ HandlerReturn(r, response)
    ELSE IF response.status >= 400 /\ response.status < 500
      THEN IF attemptNum[r] < Len(FALLBACK_MODELS)
             THEN RetryAfter(r, ClientErrorDelay)
             ELSE RequestCatch(r, ThrownResponse(response))
      ELSE RequestCatch(r, ThrownResponse(response))

\* OnResponse that promotes the first fallback model whatever model answered.
OnResponse_PromotesFirstFallback(r, response) ==
  IF response.status = 200
    THEN /\ failedAttempts' = 0
         /\ currentModel' = IF modelToUse[r] # currentModel THEN FALLBACK_MODELS[1] ELSE currentModel
         /\ HandlerReturn(r, response)
    ELSE IF response.status >= 400 /\ response.status < 500
      THEN IF attemptNum[r] < Len(FALLBACK_MODELS)
             THEN RetryAfter(r, ClientErrorDelay)
             ELSE RequestCatch(r, ThrownResponse(response))
      ELSE RequestCatch(r, ThrownResponse(response))

\* The code after the awaited axios.post resolved with `response`.
OnResponse(r, response) ==
  IF response.status = 200
    THEN /\ failedAttempts' = 0
         /\ currentModel' = IF modelToUse[r] # currentModel THEN modelToUse[r] ELSE currentModel
         /\ HandlerReturn(r, response)
    ELSE IF response.status >= 400 /\ response.status < 500
      THEN IF attemptNum[r] < Len(FALLBACK_MODELS)
             THEN RetryAfter(r, ClientErrorDelay)
             ELSE RequestCatch(r, ThrownResponse(response))
      ELSE RequestCatch(r, ThrownResponse(response))

\* ------------------------------------------------------------- actions
\* Receive that dispatches without looking at the credential.
Receive_KeyNotChecked(r) ==
  /\ pc[r] = "idle"
  /\ \E requested \in BOOLEAN :
       /\ stream' = [stream EXCEPT ![r] = requested]
       /\ LET processedMessages == truncateMessages(InjectSystemMessage(CallerMessages(body)))
          IN EnterAttempt(r, processedMessages, max_tokens(body), requested, 0)
  /\ UNCHANGED << upstream, API_KEY, currentModel, failedAttempts, body, functionVars, streamVars, sessionVars >>

\* POST /v1/chat/completions arrives: the handler runs up to the first
\* await, that of makeNvidiaRequest(processedMessages, temperature,
\* max_tokens, stream, 0).
Receive(r) ==
  /\ pc[r] = "idle"
  /\ IF API_KEY = ""
       THEN /\ pc' = [pc EXCEPT ![r] = "done"]
            /\ http' = [http EXCEPT ![r] = MissingKeyHttp]
            /\ UNCHANGED << attemptNum, modelToUse, stream, delay, calls, returned, thrown,
                            nimRequest >>
       ELSE \E requested \in BOOLEAN :
              /\ stream' = [stream EXCEPT ![r] = requested]
              /\ LET processedMessages ==
                       truncateMessages(InjectSystemMessage(CallerMessages(body)))
                 IN EnterAttempt(r, processedMessages, max_tokens(body), requested, 0)
  /\ UNCHANGED << upstream, API_KEY, currentModel, failedAttempts, body, functionVars, streamVars, sessionVars >>

\* The awaited axios.post of request r settles with an upstream outcome.
PostSettles(r) ==
  /\ pc[r] = "post"
  /\ \E outcome \in OutcomesUnder(upstream, modelToUse[r]) :
       IF outcome.status # 0 /\ validateStatus(outcome.status)
         THEN OnResponse(r, AxiosResponse(outcome, modelToUse[r], stream[r]))
         ELSE RequestCatch(r, AxiosError(outcome, modelToUse[r], stream[r]))
  /\ UNCHANGED << upstream, API_KEY, attemptNum, modelToUse, stream, calls, body, nimRequest,
                  functionVars, streamVars, sessionVars >>

\* The awaited setTimeout of request r fires: the recursive call starts,
\* with the messages, max_tokens and stream of the frame that posted last.
DelayElapses(r) ==
  /\ pc[r] = "delay"
  /\ EnterAttempt(r, nimRequest[r].messages, nimRequest[r].max_tokens, stream[r],
                  attemptNum[r] + 1)
  /\ UNCHANGED << upstream, API_KEY, currentModel, failedAttempts, stream, body, functionVars, streamVars, sessionVars >>

\* Receive, for requests processed one after the other: request r arrives when
\* the requests before it are answered and no later one has arrived.
ReceiveSequential(r) ==
  /\ \A q \in Requests : IF q < r THEN pc[q] = "done" ELSE pc[q] = "idle"
  /\ Receive(r)

Next == \E r \in Requests : Receive(r) \/ PostSettles(r) \/ DelayElapses(r)

NextSequential ==
  \E r \in Requests : ReceiveSequential(r) \/ PostSettles(r) \/ DelayElapses(r)

\* Requests arrive and interleave freely.
Spec == Init /\ [][Next]_vars

\* Requests are processed one at a time.
SpecSequential == Init /\ [][NextSequential]_vars

\* ------------------------------------------------- functions on their own
\* One function of the handler is applied to one argument.
InitFunctions ==
  /\ InitServer /\ upstream = "any" /\ API_KEY = "nvapi-key" /\ body = ShortBody
  /\ result = Absent
  /\ NoStream
  /\ NoSession
  /\ \/ applied = "truncateMessages" /\ \E n \in 0..MaxHistory : argument = History(n, 0)
     \/ /\ applied \in {"max_tokens", "max_tokens_server"}
        /\ argument \in [messages : {Given(History(1, 0))},
                          max_tokens : {Absent} \cup {Given(t) : t \in 0..MaxTokenRequest}]
     \/ /\ applied \in {"openaiResponse", "handleChatResponse"}
        /\ argument \in [data : CompletionBodies, model : {Absent, Given("gpt-4")}]

\* The function returns; a function that reads its argument leaves it as it is.
Return(value) ==
  /\ result = Absent
  /\ result' = Given(value)
  /\ UNCHANGED << applied, argument, serverVars, streamVars, sessionVars >>

ApplyTruncateMessages ==
  applied = "truncateMessages" /\ Return(truncateMessages(argument))

ApplyMaxTokens == applied = "max_tokens" /\ Return(max_tokens(argument))

ApplyMaxTokensServer == applied = "max_tokens_server" /\ Return(max_tokens_server(argument))

ApplyOpenaiResponse ==
  applied = "openaiResponse" /\ Return(openaiResponse(argument.data, argument.model))

ApplyHandleChatResponse ==
  applied = "handleChatResponse" /\ Return(handleChatResponse(argument.data, argument.model))

NextFunctions ==
  \/ ApplyTruncateMessages
  \/ ApplyMaxTokens
  \/ ApplyMaxTokensServer
  \/ ApplyOpenaiResponse
  \/ ApplyHandleChatResponse

SpecFunctions == InitFunctions /\ [][NextFunctions]_vars

\* One request is served; it carries any of the bodies.
NextHandler == Receive(1) \/ PostSettles(1) \/ DelayElapses(1)

SpecHandler == InitHandler /\ [][NextHandler]_vars

\* The same, with every upstream call returning or timing out (the axios
\* timeout) and every setTimeout firing.
SpecHandlerFair ==
  SpecHandler /\ WF_vars(PostSettles(1)) /\ WF_vars(DelayElapses(1))

\* ------------------------------------------------ one streamed response
\* Upstream lines of the kinds the provider and the network produce.
ContentLine(chars) == << DataPrefix, JOpen, JContentOpen >> \o chars \o << JQuote, JClose >>

ReasoningLine(chars) == << DataPrefix, JOpen, JReasoningOpen >> \o chars \o << JQuote, JClose >>

BothLine(reasoning, content) ==
  << DataPrefix, JOpen, JReasoningOpen >> \o reasoning
    \o << JQuote, JContentOpen >> \o content \o << JQuote, JClose >>

StreamLines ==
  { << >>,                                        \* the blank line after an event
    << DataPrefix, DoneMark >>,
    << DataPrefix, JNoDelta >>,
    << DataPrefix, JOpen, JClose >>,              \* an empty delta
    << DataPrefix, JOpen, JContentOpen, Letter >>,        \* cut short
    << DataPrefix, Garbage, LeadByte, ContByte >>,
    ContentLine(<< Letter >>),
    ContentLine(<< LeadByte, ContByte >>),
    ReasoningLine(<< Letter >>),
    ReasoningLine(<< DoneMark >>),
    BothLine(<< Letter >>, << Letter >>) }

\* The lines joined, a newline after each but, when the stream breaks off,
\* the last.
RECURSIVE JoinLines(_, _)
JoinLines(lines, terminated) ==
  IF lines = << >> THEN << >>
  ELSE IF Len(lines) = 1 THEN lines[1] \o (IF terminated THEN << NL >> ELSE << >>)
  ELSE lines[1] \o << NL >> \o JoinLines(Tail(lines), terminated)

StreamTexts ==
  { JoinLines(lines, terminated) :
      lines \in UNION { [1..n -> StreamLines] : n \in 1..MaxLines },
      terminated \in BOOLEAN }

\* The builds that serve a stream: handleChat as shipped, handleChat with
\* SHOW_REASONING set to true, and the handler that pipes.
StreamHandlers == {"handleChat", "handleChat_SHOW_REASONING", "pipe"}

InitStream ==
  /\ InitServer
  /\ upstream = "any"
  /\ API_KEY = "nvapi-key"
  /\ body = ShortBody
  /\ NoFunction
  /\ NoSession
  /\ handler \in StreamHandlers
  /\ text \in StreamTexts
  /\ delivered = 0
  /\ buffer = << >>
  /\ reasoningStarted = FALSE
  /\ written = << >>
  /\ outbound = "open"
  /\ source = "flowing"

\* res.end() of the 'error' listener left out.
OutboundAfter_ErrorLeavesOpen(event, now) ==
  IF event = "end" THEN "closed" ELSE now

\* The response stream after an upstream event: both handlers end it on
\* 'end' (handleChat by res.end(), the pipe by itself) and on 'error'.
OutboundAfter(event, now) ==
  IF event \in {"end", "error"} THEN "closed" ELSE now

\* The bytes the pipe passed on so far, seen as one write: the pipe writes
\* each chunk as it came.
Piped(before, chunk) ==
  << RawWrite((IF before = << >> THEN << >> ELSE before[1].line) \o chunk, "") >>

\* The upstream stream emits 'data' with the next bytes, cut anywhere.
OnData ==
  /\ source = "flowing"
  /\ \E k \in 1..(Len(text) - delivered) :
       LET chunk == SubSeq(text, delivered + 1, delivered + k)
           step == OnChunk(chunk, buffer, reasoningStarted,
                           handler = "handleChat_SHOW_REASONING")
       IN /\ delivered' = delivered + k
          /\ IF handler = "pipe"
               THEN /\ written' = Piped(written, chunk)
                    /\ UNCHANGED << buffer, reasoningStarted >>
               ELSE /\ written' = written \o step.writes
                    /\ buffer' = step.buffer
                    /\ reasoningStarted' = step.started
  /\ outbound' = OutboundAfter("data", outbound)
  /\ UNCHANGED << handler, text, source, serverVars, functionVars, sessionVars >>

\* The upstream stream emits 'end' after its last byte.
OnEnd ==
  /\ source = "flowing"
  /\ delivered = Len(text)
  /\ source' = "ended"
  /\ outbound' = OutboundAfter("end", outbound)
  /\ UNCHANGED << handler, text, delivered, buffer, reasoningStarted, written,
                  serverVars, functionVars, sessionVars >>

\* The upstream stream emits 'error', at any point before its end.
OnError ==
  /\ source = "flowing"
  /\ source' = "errored"
  /\ outbound' = OutboundAfter("error", outbound)
  /\ UNCHANGED << handler, text, delivered, buffer, reasoningStarted, written,
                  serverVars, functionVars, sessionVars >>

NextStream == OnData \/ OnEnd \/ OnError

SpecStream == InitStream /\ [][NextStream]_vars

\* ------------------------------------------------ session-memory variant
InitSession ==
  /\ InitServer
  /\ upstream = "any"
  /\ body = ShortBody
  /\ NoFunction
  /\ NoStream
  /\ NoSession

\* POST /v1/chat/completions of the session-memory variant arrives: the
\* handler runs up to the await of axios.post.
SessionReceive(r) ==
  /\ pc[r] = "idle"
  /\ \E id \in SessionIds, n \in BatchSizes :
       IF API_KEY = ""
         THEN /\ http' = [http EXCEPT ![r] = MissingKeyHttp]
              /\ pc' = [pc EXCEPT ![r] = "done"]
              /\ UNCHANGED << sessions, sessionRequest, nimRequest >>
         ELSE LET session == IF sessions[id] = Absent THEN NewSession ELSE sessions[id][1]
              IN /\ sessions' = [sessions EXCEPT ![id] = Given(session)]
                 /\ sessionRequest' =
                      [sessionRequest EXCEPT
                         ![r] = [session_id |-> id, messages |-> IncomingMessages(r, n)]]
                 /\ nimRequest' =
                      [nimRequest EXCEPT
                         ![r] = [messages |-> combinedContext(session, IncomingMessages(r, n)),
                                 max_tokens |-> SessionDefaultMaxTokens,
                                 model |-> SESSION_MODEL,
                                 stream |-> FALSE]]
                 /\ pc' = [pc EXCEPT ![r] = "post"]
                 /\ UNCHANGED http
  /\ UNCHANGED << upstream, API_KEY, currentModel, failedAttempts, attemptNum, modelToUse,
                  stream, delay, calls, returned, thrown, body, functionVars, streamVars >>

\* The handler after the await resolved: the incoming messages and the reply
\* go into the session, the summary is updated, the caller is answered.
SessionThen(r, outcome) ==
  LET id == sessionRequest[r].session_id IN
  /\ sessions' = [sessions EXCEPT
                    ![id] = Given(SaveToSession(sessions[id][1], sessionRequest[r].messages,
                                                SessionReply(r, outcome)))]
  /\ http' = [http EXCEPT ![r] = SessionSuccessHttp]

\* A catch block that stores the caller's messages all the same.
SessionCatch_KeepsIncoming(r, outcome) ==
  LET id == sessionRequest[r].session_id IN
  /\ sessions' = [sessions EXCEPT
                    ![id] = Given([summary |-> sessions[id][1].summary,
                                   messages |-> sessions[id][1].messages
                                                  \o sessionRequest[r].messages])]
  /\ http' = [http EXCEPT ![r] = SessionErrorHttp(outcome)]

\* The catch block of the handler.
SessionCatch(r, outcome) ==
  /\ http' = [http EXCEPT ![r] = SessionErrorHttp(outcome)]
  /\ UNCHANGED sessions

\* The awaited axios.post of request r settles.
SessionSettles(r) ==
  /\ pc[r] = "post"
  /\ \E outcome \in SessionOutcomes :
       IF outcome.status # 0 /\ defaultValidateStatus(outcome.status)
         THEN SessionThen(r, outcome)
         ELSE SessionCatch(r, outcome)
  /\ pc' = [pc EXCEPT ![r] = "done"]
  /\ UNCHANGED << upstream, API_KEY, currentModel, failedAttempts, attemptNum, modelToUse,
                  stream, delay, calls, returned, thrown, body, nimRequest, sessionRequest,
                  functionVars, streamVars >>

NextSession == \E r \in Requests : SessionReceive(r) \/ SessionSettles(r)

SpecSession == InitSession /\ [][NextSession]_vars

\* ------------------------------------------------------------ vocabulary
\* The dispatch of request r ended in a terminal error.
Failed(r) == pc[r] = "done" /\ thrown[r] # NoError

\* The dispatch of request r returned a response to the handler.
Succeeded(r) == pc[r] = "done" /\ returned[r] # NoResponse

IsClientError(status) == status >= 400 /\ status < 500

\* The models of a full fallback sequence that starts with `first`.
AttemptOrder(first) == << first >> \o FALLBACK_MODELS

LastFallback == FALLBACK_MODELS[Len(FALLBACK_MODELS)]

MaxOf(S) == CHOOSE x \in S : \A y \in S : y <= x

\* The step in which request r's awaited call answers 200.
SuccessStep(r) == pc[r] = "post" /\ pc'[r] = "done" /\ returned'[r].status = 200

\* The step in which request r's awaited call ends in anything else.
FailureStep(r) == pc[r] = "post" /\ pc'[r] # "post" /\ returned'[r] = NoResponse

\* ------------------------------------------------------------------- C1
\* C1: a dispatch whose attempts all fail (in particular one whose attempts
\* all answer 4xx) calls exactly 1 + |FALLBACK_MODELS| models before its
\* terminal error: the Current Model read at attempt 0, then FALLBACK_MODELS
\* in list order.  While a dispatch runs, the calls made so far are the
\* prefix of that order, so no model is skipped or reordered.
C1_FallbackOrder ==
  \A r \in Requests :
    /\ pc[r] \in {"post", "delay"} =>
         calls[r] = SubSeq(AttemptOrder(currentModel), 1, attemptNum[r] + 1)
    /\ Failed(r) =>
         /\ Len(calls[r]) = 1 + Len(FALLBACK_MODELS)
         /\ calls[r] = AttemptOrder(calls[r][1])
    /\ (upstream = "client_errors" /\ pc[r] = "done" /\ calls[r] # << >>) => Failed(r)

\* Every attempt answered 4xx and the dispatch raised its terminal error.
C1_Witness ==
  /\ upstream = "client_errors"
  /\ \E r \in Requests :
       /\ Failed(r)
       /\ IsClientError(thrown[r].response.status)
       /\ calls[r] = AttemptOrder(PRIMARY_MODEL)

\* ------------------------------------------------------------------- C2
\* The request r's attempt with index > 0 answered 200.
Promoted(r) == Succeeded(r) /\ attemptNum[r] > 0

\* The model of the latest promotion among the requests before `before`, the
\* primary model when there is none.
StickyModel(before) ==
  LET P == {q \in Requests : q < before /\ Promoted(q)} IN
  IF P = {} THEN PRIMARY_MODEL ELSE FALLBACK_MODELS[attemptNum[MaxOf(P)]]

\* C2: with requests processed one after the other, Current Model is the
\* model FALLBACK_MODELS[k-1] of the most recent attempt k > 0 that answered
\* 200 (successes at attempt 0 and failures leave it alone), and every
\* request starts its attempt 0 with the model so left by the requests
\* before it.
C2_StickyPromotion ==
  /\ (\A r \in Requests : pc[r] \in {"idle", "done"}) =>
       currentModel = StickyModel(MaxRequests + 1)
  /\ \A r \in Requests : calls[r] # << >> => calls[r][1] = StickyModel(r)

\* A promotion to a model other than the primary, then a later request that
\* starts with that model and succeeds at attempt 0.
C2_Witness ==
  \E r, q \in Requests :
    /\ r < q
    /\ Promoted(r)
    /\ FALLBACK_MODELS[attemptNum[r]] # PRIMARY_MODEL
    /\ Succeeded(q)
    /\ attemptNum[q] = 0
    /\ calls[q] = << FALLBACK_MODELS[attemptNum[r]] >>
    /\ currentModel = FALLBACK_MODELS[attemptNum[r]]

\* ------------------------------------------------------------------- C3
\* C3: a sequential dispatch in which all 1 + |FALLBACK_MODELS| attempts fail
\* raises the Failure Counter by exactly 1 + |FALLBACK_MODELS| (stated for
\* the first request, which starts with the counter at 0).
C3_EveryFailedAttemptCounted ==
  \A r \in Requests :
    (Failed(r) /\ \A q \in Requests : q # r => pc[q] = "idle") =>
      failedAttempts = 1 + Len(FALLBACK_MODELS)

\* ------------------------------------------------------------------- C4
\* C4: the step in which an attempt answers 200 leaves the Failure Counter at
\* 0 and returns that attempt's response; when it is the first fallback's
\* attempt (after the first attempt failed, for instance with 429), the
\* response is the first fallback's and Current Model is FALLBACK_MODELS[0].
C4_SuccessResetsCounter ==
  [][\A r \in Requests :
       SuccessStep(r) =>
         /\ failedAttempts' = 0
         /\ returned'[r].model = modelToUse[r]
         /\ attemptNum[r] = 1 =>
              /\ returned'[r].model = FALLBACK_MODELS[1]
              /\ currentModel' = FALLBACK_MODELS[1]]_vars

\* The primary model answered 429, the first fallback 200.
C4_Witness ==
  /\ upstream = "primary_rate_limited"
  /\ \E r \in Requests :
       /\ Succeeded(r)
       /\ calls[r] = << PRIMARY_MODEL, FALLBACK_MODELS[1] >>
       /\ returned[r].model = FALLBACK_MODELS[1]
       /\ currentModel = FALLBACK_MODELS[1]
       /\ failedAttempts = 0

\* ------------------------------------------------------------------- C5
\* C5: Current Model is always the primary model or one of FALLBACK_MODELS.
C5_CurrentModelKnown ==
  currentModel \in {PRIMARY_MODEL} \cup {FALLBACK_MODELS[i] : i \in 1..Len(FALLBACK_MODELS)}

\* Current Model was promoted to the last fallback model.
C5_Witness ==
  /\ currentModel = LastFallback
  /\ \E r \in Requests : Promoted(r) /\ attemptNum[r] = Len(FALLBACK_MODELS)

\* ------------------------------------------------------------------- C6
\* C6: no step of a failing attempt changes Current Model, so a dispatch whose
\* attempts all fail leaves it as it was; the only steps that change it are
\* attempts answering 200, which set it to their model.
C6_OnlySuccessChangesModel ==
  [][/\ \A r \in Requests : FailureStep(r) => currentModel' = currentModel
     /\ currentModel' # currentModel =>
          \E r \in Requests : SuccessStep(r) /\ currentModel' = modelToUse[r]]_vars

\* A dispatch failed on every model while Current Model kept the promoted
\* value the dispatch started with.
C6_Witness ==
  \E r \in Requests :
    /\ Failed(r)
    /\ currentModel # PRIMARY_MODEL
    /\ calls[r] = AttemptOrder(currentModel)

\* ------------------------------------------------------------------- C7
\* C7 as stated: a dispatch that exhausts the fallback list fails with the
\* "all models exhausted" error.
C7_ExhaustedErrorRaised ==
  \A r \in Requests : Failed(r) => thrown[r] = ExhaustedError

\* C7, amended: a dispatch that exhausts the fallback list throws the failure
\* of its last attempt (attempt |FALLBACK_MODELS|, on the last fallback model)
\* to the handler, after 1 + |FALLBACK_MODELS| calls and without a further
\* retry; no attempt index ever fails to resolve a model, so the "all models
\* exhausted" error is never raised.
C7_LastFailureRaised ==
  \A r \in Requests :
    /\ pc[r] # "idle" /\ calls[r] # << >> => modelToUse[r] # NoModel
    /\ Failed(r) =>
         /\ thrown[r] # ExhaustedError
         /\ attemptNum[r] = Len(FALLBACK_MODELS)
         /\ Len(calls[r]) = 1 + Len(FALLBACK_MODELS)
         /\ thrown[r].response # NoResponse =>
              /\ thrown[r].response.model = LastFallback
              /\ thrown[r].response.status # 200

\* A dispatch failed with the last fallback model's response as its error.
C7_Witness ==
  \E r \in Requests :
    /\ Failed(r)
    /\ thrown[r].response.model = LastFallback
    /\ attemptNum[r] = Len(FALLBACK_MODELS)

\* ------------------------------------------------------------------- C8
\* C8 as stated (checked on non-streaming requests): when every attempt ends
\* in an upstream 500 the caller gets 503 service_unavailable, with or
\* without an upstream body.
C8_AllServerErrorsGive503 ==
  \A r \in Requests :
    (upstream = "server_errors" /\ Failed(r) /\ ~stream[r]) =>
      http[r] = ServiceUnavailableHttp

\* C8, amended: when every attempt of a non-streaming request ends in an
\* upstream 500, the caller gets 503 service_unavailable if the last 500
\* carried no body, and HTTP 500 with the upstream body as error payload if
\* it carried one.
C8_AllServerErrorsMapped ==
  \A r \in Requests :
    (upstream = "server_errors" /\ pc[r] = "done" /\ calls[r] # << >> /\ ~stream[r]) =>
      /\ Failed(r)
      /\ thrown[r].response.status = 500
      /\ thrown[r].response.data = NoData => http[r] = ServiceUnavailableHttp
      /\ thrown[r].response.data # NoData =>
           http[r] = [status |-> 500,
                      body |-> [kind |-> "error", payload |-> thrown[r].response.data]]

\* Every attempt answered 500; one dispatch ended on a 500 without body, the
\* other on a 500 with a body.
C8_Witness ==
  /\ upstream = "server_errors"
  /\ \E r, q \in Requests :
       /\ ~stream[r] /\ ~stream[q]
       /\ Failed(r) /\ thrown[r].response.data = NoData /\ http[r].status = 503
       /\ Failed(q) /\ thrown[q].response.data # NoData /\ http[q].status = 500

\* ------------------------------------------------------------------- C9
\* The error of a transport or server failure: no answer at all (network
\* failure, timeout) or a status of 500 and above.
TransportFailure(error) == error.response = NoResponse \/ error.response.status >= 500

\* C9: when the dispatch ends on a transport or server failure, the caller
\* gets 503 with the generic "temporarily unavailable" error if the error has
\* no upstream response or no upstream body, and the upstream status and body
\* otherwise.
C9_TransportFailureMapped ==
  \A r \in Requests :
    (Failed(r) /\ TransportFailure(thrown[r])) =>
      IF thrown[r].response = NoResponse \/ thrown[r].response.data = NoData
        THEN http[r] = ServiceUnavailableHttp
        ELSE /\ http[r].status = thrown[r].response.status
             /\ http[r].body = [kind |-> "error", payload |-> thrown[r].response.data]

\* ------------------------------------------------------------------ C10
\* C10 as stated (checked on non-streaming requests): a final upstream 4xx
\* other than 429 always reaches the caller with the same status and the
\* upstream body.
C10_ClientErrorPassedThrough ==
  \A r \in Requests :
    (Failed(r) /\ ~stream[r] /\ IsClientError(thrown[r].response.status)
       /\ thrown[r].response.status # 429) =>
      /\ http[r].status = thrown[r].response.status
      /\ http[r].body = [kind |-> "error", payload |-> thrown[r].response.data]

\* C10, amended: for a non-streaming request, a final upstream 4xx other than
\* 429 reaches the caller with the same status and the upstream body when
\* that response has a body; when it has none the caller gets 503
\* service_unavailable.
C10_ClientErrorWithBodyPassedThrough ==
  \A r \in Requests :
    (Failed(r) /\ ~stream[r] /\ IsClientError(thrown[r].response.status)
       /\ thrown[r].response.status # 429) =>
      IF thrown[r].response.data # NoData
        THEN /\ http[r].status = thrown[r].response.status
             /\ http[r].body = [kind |-> "error", payload |-> thrown[r].response.data]
        ELSE http[r] = ServiceUnavailableHttp

\* A dispatch ended on a 404 with a body and the caller received that 404.
C10_Witness ==
  \E r \in Requests :
    /\ Failed(r)
    /\ ~stream[r]
    /\ thrown[r].response.status = 404
    /\ thrown[r].response.data # NoData
    /\ http[r] = [status |-> 404,
                  body |-> [kind |-> "error", payload |-> thrown[r].response.data]]

\* ------------------------------------------------------------------ C11
\* C11 (checked on non-streaming requests): a dispatch whose last upstream
\* answer is a 429 has retried through every model, and the caller gets
\* HTTP 429 with the rate_limit_error message whatever body that 429 carried.
C11_RateLimitSurfaced ==
  \A r \in Requests :
    (Failed(r) /\ ~stream[r] /\ thrown[r].response.status = 429) =>
      /\ calls[r] = AttemptOrder(calls[r][1])
      /\ http[r] = RateLimitHttp

\* ------------------------------------------------------------------ C12
\* C12: with the API credential missing, every request is answered HTTP 500
\* "Missing NIM_API_KEY" in the step that receives it: no upstream call is
\* issued, no retry or delay is ever pending, and Current Model and the
\* Failure Counter keep their startup values.
C12_MissingKeyAnsweredAtOnce ==
  API_KEY = "" =>
    /\ currentModel = PRIMARY_MODEL
    /\ failedAttempts = 0
    /\ \A r \in Requests :
         /\ pc[r] \in {"idle", "done"}
         /\ calls[r] = << >>
         /\ delay[r] = 0
         /\ attemptNum[r] = 0
         /\ thrown[r] = NoError /\ returned[r] = NoResponse
         /\ pc[r] = "done" => http[r] = MissingKeyHttp

\* Every request of a run without credential has been answered 500.
C12_Witness ==
  /\ API_KEY = ""
  /\ \A r \in Requests : pc[r] = "done" /\ http[r] = MissingKeyHttp

\* ------------------------------------------------------------------ C13
\* C13 as stated: under any interleaving, Current Model changes only in a
\* step in which an attempt with index > 0 answers 200.
C13_OnlyFallbackSuccessWrites ==
  [][currentModel' # currentModel =>
       \E r \in Requests : SuccessStep(r) /\ attemptNum[r] > 0]_vars

\* C13, amended: under any interleaving, Current Model changes only in a
\* step in which an attempt answers 200 with a model that differs from
\* Current Model at that moment, and it becomes that model; the attempt has
\* index > 0, or it is an attempt 0 whose model was read before another
\* request's success changed Current Model (last write wins).
C13_SuccessWritesItsModel ==
  [][currentModel' # currentModel =>
       \E r \in Requests :
         /\ SuccessStep(r)
         /\ modelToUse[r] # currentModel
         /\ currentModel' = modelToUse[r]
         /\ attemptNum[r] = 0 =>
              \E q \in Requests \ {r} :
                Succeeded(q) /\ returned[q].model = currentModel]_vars

\* Two requests read the same Current Model at attempt 0; one was promoted
\* to a fallback model, and the other's attempt 0 then succeeded and wrote
\* the model it had read back over the promoted one.
C13_Witness ==
  \E r, q \in Requests :
    /\ r # q
    /\ Succeeded(r) /\ attemptNum[r] = 0
    /\ Succeeded(q) /\ attemptNum[q] > 0
    /\ calls[r][1] = calls[q][1]
    /\ returned[q].model # returned[r].model
    /\ currentModel = returned[r].model
    /\ \A o \in Requests \ {r, q} : pc[o] = "idle"

\* --------------------------------------------------------- C14 .. C17
\* truncateMessages was applied to a history and has returned.
Truncated == applied = "truncateMessages" /\ result # Absent

\* The first tier whose threshold is strictly greater than `length`.
FirstTierAbove(length) ==
  CHOOSE t \in TierSet :
    /\ t.threshold > length
    /\ \A u \in TierSet : u.threshold > length => t.threshold <= u.threshold

\* C14: for a history longer than the keep value of its selected tier,
\* truncateMessages returns exactly keep messages, the first keepFirst
\* messages of the input followed by its last keep - keepFirst messages, each
\* segment in the input's order; for 250 messages these are 120 messages,
\* input[0..10) followed by input[140..250).
C14_TruncatedToKeep ==
  Truncated =>
    LET n == Len(argument)
        tier == SelectTier(n)
        out == result[1]
    IN n > tier.keep =>
         /\ Len(out) = tier.keep
         /\ out = SubSeq(argument, 1, tier.keepFirst)
                    \o SubSeq(argument, n - (tier.keep - tier.keepFirst) + 1, n)
         /\ n = 250 =>
              /\ Len(out) = 120
              /\ \A i \in 1..120 : out[i].seq = IF i <= 10 THEN i ELSE 130 + i

\* A history of 250 messages was cut to 120.
C14_Witness ==
  Truncated /\ Len(argument) = 250 /\ Len(result[1]) = 120

\* C15: for a history no longer than the keep value of the tier selected for
\* its length (the first tier whose threshold is strictly greater than the
\* length), truncateMessages returns the input, the same messages in the
\* same order.
C15_ShortHistoryUnchanged ==
  Truncated =>
    (Len(argument) <= FirstTierAbove(Len(argument)).keep => result[1] = argument)

\* A history of exactly the medium tier's keep value came back unchanged.
C15_Witness ==
  /\ Truncated
  /\ Len(argument) = TRUNCATION_TIERS.medium.keep
  /\ FirstTierAbove(Len(argument)) = TRUNCATION_TIERS.medium
  /\ result[1] = argument

\* C16: the output of truncateMessages is its input with at most one
\* contiguous middle slice removed: a leading and a trailing segment of the
\* input that do not overlap, so no message appears twice and none is
\* reordered; the input array still is the history that was passed in.
C16_OneMiddleSliceRemoved ==
  Truncated =>
    LET n == Len(argument)
        out == result[1]
        k == Len(out)
    IN /\ k <= n
       /\ \E lead \in 0..k :
            \A i \in 1..k : out[i] = argument[IF i <= lead THEN i ELSE n - k + i]
       /\ \A i \in 1..(k - 1) : out[i].seq < out[i + 1].seq
       /\ argument = History(n, 0)

\* A history of 301 messages lost its middle: messages 16..166 are gone.
C16_Witness ==
  /\ Truncated
  /\ Len(argument) = 301
  /\ Len(result[1]) = 150
  /\ result[1][15].seq = 15
  /\ result[1][16].seq = 167

\* C17: tier selection is monotonic: the keep value of the tier selected for
\* a history is at least the keep value of the tier selected for any shorter
\* history.
C17_TierSelectionMonotonic ==
  Truncated =>
    \A m \in 0..Len(argument) :
      SelectTier(m).keep <= SelectTier(Len(argument)).keep

\* A history at the large tier's threshold was cut with the huge tier.
C17_Witness ==
  /\ Truncated
  /\ Len(argument) = TRUNCATION_TIERS.large.threshold
  /\ Len(result[1]) = TRUNCATION_TIERS.huge.keep

\* ------------------------------------------------------------------ C18
\* C18: when the caller's messages hold no system-role message, the messages
\* of every axios.post of the request (first attempt and fallback retries,
\* truncated or not) start with the synthesized system message and hold it
\* exactly once; when they hold a system-role message, none is synthesized.
C18_SystemMessageSynthesizedOnce ==
  \A r \in Requests :
    nimRequest[r] # NoRequest =>
      LET sent == nimRequest[r].messages IN
      IF hasSystemMessage(CallerMessages(body))
        THEN \A i \in DOMAIN sent : sent[i] # SystemMessage
        ELSE /\ sent # << >>
             /\ sent[1] = SystemMessage
             /\ Cardinality({i \in DOMAIN sent : sent[i].role = "system"}) = 1

\* The last fallback attempt of a request whose history had no system message
\* and was truncated carries the synthesized message in front.
C18_Witness ==
  \E r \in Requests :
    /\ attemptNum[r] = Len(FALLBACK_MODELS)
    /\ ~hasSystemMessage(CallerMessages(body))
    /\ Len(nimRequest[r].messages) < Len(CallerMessages(body))
    /\ nimRequest[r].messages[1] = SystemMessage

\* ------------------------------------------------------------------ C19
\* C19: the max_tokens value sent upstream lies in [200, 8000]: a requested
\* value below 200 is raised to 200, one above 8000 is lowered to 8000, and
\* an absent max_tokens is sent as 8000.
C19_MaxTokensClamped ==
  (applied \in {"max_tokens", "max_tokens_server"} /\ result # Absent) =>
    LET asked == argument.max_tokens
        sent == result[1]
    IN /\ sent \in 200..8000
       /\ asked = Absent => sent = 8000
       /\ asked # Absent =>
            /\ asked[1] < 200 => sent = 200
            /\ asked[1] > 8000 => sent = 8000

\* ------------------------------------------------------------------ C20
\* C20: the normalized response of a successful non-streaming upstream body
\* has exactly one choice, with index 0 and role assistant; its content is
\* the upstream choices[0].message.content, or the single space when that is
\* empty or missing, never the empty string; finish_reason defaults to
\* "stop" and usage to {10, 50, 60} when the upstream sent none.
C20_NormalizedCompletion ==
  (applied \in {"openaiResponse", "handleChatResponse"} /\ result # Absent) =>
    LET data == argument.data
        normalized == result[1]
        choice == normalized.choices[1]
        content == IF FirstMessage(data) = Absent THEN Absent ELSE FirstMessage(data)[1].content
        reason == IF FirstChoice(data) = Absent THEN Absent ELSE FirstChoice(data)[1].finish_reason
        usage == IF data = Absent THEN Absent ELSE data[1].usage
    IN /\ Len(normalized.choices) = 1
       /\ choice.index = 0
       /\ choice.message.role = "assistant"
       /\ choice.message.content # ""
       /\ choice.message.content =
            IF content = Absent \/ content = Given("") THEN " " ELSE content[1]
       /\ choice.finish_reason = IF reason = Absent THEN "stop" ELSE reason[1]
       /\ normalized.usage = IF usage = Absent THEN DefaultUsage ELSE usage[1]

\* ------------------------------------------------------------------ C26
\* C26: a request whose handler has run to its end has received an HTTP
\* response: a normalized success, a stream or an error status with a body.
C26_EveryRequestAnswered ==
  \A r \in Requests : pc[r] = "done" => http[r] # NoHttp

\* ------------------------------------------------------------------ C27
\* C27: the next upstream call of a dispatch starts only out of a pending
\* delay, the delay is pending only between two attempts (never after the
\* final attempt, never once the dispatch has ended), and it is 1000 ms when
\* the attempts fail on upstream 4xx answers and 2000 ms when they fail on
\* transport or server errors.
C27_OneFixedDelayBetweenAttempts ==
  /\ [](\A r \in Requests :
          IF pc[r] = "delay"
            THEN /\ attemptNum[r] < Len(FALLBACK_MODELS)
                 /\ delay[r] \in {ClientErrorDelay, TransportErrorDelay}
                 /\ upstream = "client_errors" => delay[r] = ClientErrorDelay
                 /\ upstream \in {"server_errors", "no_answer"} =>
                      delay[r] = TransportErrorDelay
            ELSE delay[r] = 0)
  /\ [][\A r \in Requests :
          (Len(calls'[r]) > Len(calls[r]) /\ calls[r] # << >>) =>
            /\ pc[r] = "delay"
            /\ Len(calls'[r]) = Len(calls[r]) + 1]_vars

\* The 1000 ms delay before the last fallback attempt of a dispatch whose
\* attempts all fail on 4xx answers.
C27_Witness ==
  \E r \in Requests :
    /\ upstream = "client_errors"
    /\ pc[r] = "delay"
    /\ delay[r] = ClientErrorDelay
    /\ attemptNum[r] = Len(FALLBACK_MODELS) - 1

\* ------------------------------------------------------------------ C28
\* C28: in every reachable state the Failure Counter is an integer >= 0 (and
\* at most the number of retries the requests can have made).
C28_FailureCounterNonNegative ==
  /\ failedAttempts \in Nat
  /\ failedAttempts <= MaxRequests * Len(FALLBACK_MODELS)

\* The counter after two dispatches failed on every model.
C28_Witness ==
  /\ failedAttempts = 2 * Len(FALLBACK_MODELS)
  /\ \E r, q \in Requests : r # q /\ Failed(r) /\ Failed(q)

\* ------------------------------------------------------------------ C29
\* C29: the dispatch returns a response to the handler only when its status
\* is 200; when the provider answers with other statuses below 400 (204),
\* no response is returned: each attempt is followed by the 2000 ms delay
\* and the next model, and the last one raises the error.
C29_OnlyStatus200Returned ==
  \A r \in Requests :
    /\ Succeeded(r) => returned[r].status = 200
    /\ upstream = "other_statuses" =>
         /\ returned[r] = NoResponse
         /\ pc[r] = "delay" => delay[r] = TransportErrorDelay
         /\ calls[r] = SubSeq(AttemptOrder(PRIMARY_MODEL), 1, Len(calls[r]))
         /\ (pc[r] = "done" /\ API_KEY # "") =>
              /\ Failed(r)
              /\ Len(calls[r]) = 1 + Len(FALLBACK_MODELS)

\* A dispatch whose attempts were all answered 204 ended in an error after
\* trying every model.
C29_Witness ==
  \E r \in Requests :
    /\ upstream = "other_statuses"
    /\ Failed(r)
    /\ thrown[r].response.status = 204
    /\ Len(calls[r]) = 1 + Len(FALLBACK_MODELS)

\* ------------------------------------------------------------------ C30
\* C30: every dispatch terminates: it makes at most 1 + |FALLBACK_MODELS|
\* upstream calls, the attempt index grows by one from each call to the
\* next, and a dispatch that has started returns or throws in the end.
C30_DispatchTerminates ==
  /\ [](\A r \in Requests :
          /\ Len(calls[r]) <= 1 + Len(FALLBACK_MODELS)
          /\ calls[r] # << >> => attemptNum[r] = Len(calls[r]) - 1)
  /\ \A r \in Requests : (pc[r] \in {"post", "delay"}) ~> (pc[r] = "done")

\* A dispatch threw after its call number 1 + |FALLBACK_MODELS| got no answer.
C30_Witness ==
  \E r \in Requests :
    /\ upstream = "no_answer"
    /\ Failed(r)
    /\ attemptNum[r] = Len(FALLBACK_MODELS)
    /\ Len(calls[r]) = 1 + Len(FALLBACK_MODELS)

\* ------------------------------------------------- the streamed response
\* The stream is served by handleChat, in either build.
Normalizing == handler \in {"handleChat", "handleChat_SHOW_REASONING"}

ShowReasoning == handler = "handleChat_SHOW_REASONING"

\* What the 'data' listener writes when the whole text arrives as one chunk.
OneChunk(bytes, show) == OnChunk(bytes, << >>, FALSE, show).writes

\* The bytes before the last newline: the complete lines the stream carried.
CompleteLines(bytes) ==
  LET parts == SplitLines(bytes) IN SubSeq(parts, 1, Len(parts) - 1)

\* C21: however the upstream text is cut into chunks, once all of it was
\* delivered the writes to the client are those of the text delivered as one
\* chunk.
C21_ChunkingInvariant ==
  (Normalizing /\ delivered = Len(text)) => written = OneChunk(text, ShowReasoning)

IsDataLine(line) == line # << >> /\ line[1] = DataPrefix

\* The data lines among the complete lines the upstream has sent so far, as
\* the upstream wrote them.
DataLinesSent == SelectSeq(CompleteLines(Decode(SubSeq(text, 1, delivered))), IsDataLine)

\* A data line without the end mark whose payload JSON.parse rejects.
Malformed(line) ==
  /\ IsDataLine(line)
  /\ \A i \in DOMAIN line : line[i] # DoneMark
  /\ ParsePayload(Tail(line)) = Absent

\* C22: a data line whose payload is no JSON is written as it is, the
\* response stream stays open while the upstream flows, and every data line,
\* those after the malformed one too, has its write.
C22_MalformedLineForwarded ==
  Normalizing =>
    /\ source = "flowing" => outbound = "open"
    /\ Len(written) = Len(DataLinesSent)
    /\ \A i \in DOMAIN DataLinesSent :
         Malformed(DataLinesSent[i]) =>
           (i \in DOMAIN written /\ written[i] = RawWrite(DataLinesSent[i], "\n"))

\* The delta of an upstream data line, Absent when the line carries none.
UpstreamDelta(line) ==
  IF ParsePayload(Tail(line)) = Absent THEN Absent ELSE ParsePayload(Tail(line))[1].delta

\* A line passed on as it is that carries a reasoning_content field.
CarriesReasoning(write) ==
  /\ write.kind = "raw"
  /\ IsDataLine(write.line)
  /\ UpstreamDelta(write.line) # Absent
  /\ UpstreamDelta(write.line)[1].reasoning_content # Absent

\* C23: with reasoning display off, nothing written for a data line carries
\* a reasoning_content field, and the write for a line with a delta is the
\* event whose delta has the upstream content alone, "" when there is none.
C23_ReasoningStripped ==
  handler = "handleChat" =>
    /\ \A i \in DOMAIN written :
         /\ ~CarriesReasoning(written[i])
         /\ (written[i].kind = "event" /\ written[i].delta # Absent)
              => written[i].delta[1].reasoning_content = Absent
    /\ \A i \in DOMAIN DataLinesSent :
         UpstreamDelta(DataLinesSent[i]) # Absent =>
           /\ i \in DOMAIN written
           /\ written[i] = EventWrite(Given(
                [reasoning_content |-> Absent,
                 content |-> Given(IF Truthy(UpstreamDelta(DataLinesSent[i])[1].content)
                                     THEN UpstreamDelta(DataLinesSent[i])[1].content[1]
                                     ELSE << >>)]))

\* The delta content written to the client so far, concatenated.
RECURSIVE DeltaContent(_)
DeltaContent(writes) ==
  IF writes = << >> THEN << >>
  ELSE (IF writes[1].kind = "event" /\ writes[1].delta # Absent
             /\ writes[1].delta[1].content # Absent
          THEN writes[1].delta[1].content[1]
          ELSE << >>)
       \o DeltaContent(Tail(writes))

IsMarker(c) == c \in {ThinkOpen, ThinkClose}

\* The <think> and </think> markers of that content, in order.
Markers == SelectSeq(DeltaContent(written), IsMarker)

\* C24: with reasoning display on, the markers written alternate, <think>
\* first, and once the response stream is closed every <think> has its
\* </think>.
C24_ThinkMarkersBalanced ==
  ShowReasoning =>
    /\ \A i \in DOMAIN Markers :
         Markers[i] = (IF i % 2 = 1 THEN ThinkOpen ELSE ThinkClose)
    /\ outbound = "closed" => Len(Markers) % 2 = 0

\* C25: the response stream is closed exactly when the upstream stream has
\* signalled end or error, and from then on it stays closed and nothing is
\* written to it, whichever of the handlers serves it.
C25_ClosedOnEndOrError ==
  /\ [](handler # "none" => (outbound = "closed" <=> source \in {"ended", "errored"}))
  /\ [][outbound = "closed" => (outbound' = "closed" /\ written' = written)]_vars

\* The upstream broke off with an error after part of the text was written.
C25_Witness ==
  /\ handler # "none"
  /\ source = "errored"
  /\ outbound = "closed"
  /\ written # << >>
  /\ delivered < Len(text)

\* ------------------------------------------------------------------ C31
\* C31: within one dispatch no model is called twice: the models of the
\* calls a request has issued are pairwise distinct.
C31_NoModelTriedTwice ==
  \A r \in Requests :
    \A i, j \in DOMAIN calls[r] : i # j => calls[r][i] # calls[r][j]

\* ------------------------------------------------------------------ C32
\* C32: every message list the handler sends upstream holds at least one
\* message of role system.
C32_SystemMessageSent ==
  \A r \in Requests :
    nimRequest[r] # NoRequest => hasSystemMessage(nimRequest[r].messages)

\* ------------------------------------------------------------------ C33
\* The writes due for the lines of the whole upstream text, its last line
\* taken as a line whether or not a newline follows it.
WritesDue ==
  ProcessLines(IF text # << >> /\ text[Len(text)] = NL
                 THEN CompleteLines(Decode(text))
                 ELSE SplitLines(Decode(text)),
               FALSE, ShowReasoning).writes

\* C33: once the response stream is closed on the upstream's end, every data
\* line of the upstream text, a last line without newline too, has been
\* written once and in upstream order.
C33_NothingLostAtEnd ==
  (Normalizing /\ source = "ended") =>
    /\ outbound = "closed"
    /\ Len(written) = Len(WritesDue)
    /\ \A i \in DOMAIN written :
         i \in DOMAIN WritesDue =>
           (written[i].kind = WritesDue[i].kind /\ written[i].end = WritesDue[i].end)

\* ------------------------------------------------------------------ C34
\* The step in which request r's failed attempt is counted: the one that
\* goes on to the delay before the next model.
CountedFailureStep(r) == pc[r] = "post" /\ pc'[r] = "delay"

\* C34: whatever the other requests did since this request last ran, the
\* step of a counted failure adds one to the Failure Counter as it stands,
\* the step of a 200 sets it to 0, and no other step changes it: the counter
\* is the number of counted failures since the latest 200.
C34_NoCounterUpdateLost ==
  [][/\ \A r \in Requests :
          (pc[r] = "post" /\ pc'[r] # "post") =>
            failedAttempts' = (IF CountedFailureStep(r) THEN failedAttempts + 1
                               ELSE IF returned'[r].status = 200 THEN 0
                               ELSE failedAttempts)
     /\ failedAttempts' # failedAttempts => \E r \in Requests : pc[r] = "post" /\ pc'[r] # "post"]_vars

\* Two requests in flight together, each with counted failures, none lost.
C34_Witness ==
  \E r, q \in Requests :
    /\ r # q
    /\ pc[r] = "delay" /\ pc[q] = "delay"
    /\ attemptNum[r] >= 1 /\ attemptNum[q] >= 1
    /\ failedAttempts = (attemptNum[r] + 1) + (attemptNum[q] + 1)

\* ------------------------------------------------------------------ C35
\* The stored sessions.
StoredSessions == {id \in SessionIds : sessions[id] # Absent}

InSummary(session, m) == \E i \in DOMAIN session.summary : session.summary[i] = SummaryLine(m)

\* C35: no message is both in a session's summary and among its stored
\* messages, and a session stores at most MAX_RECENT_MESSAGES messages.
\* (Messages are told apart by their text; the empty replies are all alike
\* and are left out.)
C35_SummaryDisjointFromMessages ==
  \A id \in StoredSessions :
    LET session == sessions[id][1] IN
    /\ Len(session.messages) <= MAX_RECENT_MESSAGES
    /\ \A i \in DOMAIN session.messages :
         session.messages[i].content # << >> => ~InSummary(session, session.messages[i])

\* ------------------------------------------------------------------ C36
\* What a session stores; a session not yet created stores nothing.
Stored(all, id) == IF all[id] = Absent THEN NewSession ELSE all[id][1]

\* The step in which the handler answers request r after its upstream call.
AnswerStep(r) == pc[r] = "post" /\ pc'[r] = "done"

\* C36: the step that answers a request whose upstream call failed leaves
\* what every session stores as it was; the step that answers one whose call
\* succeeded leaves in the request's session the end of the list made of the
\* stored messages, the caller's messages and the reply, in that order; and
\* no step before the answer changes what a session stores.
C36_SessionSavedOnlyOnSuccess ==
  [][\A r \in Requests :
       LET id == sessionRequest[r].session_id
           saved == Stored(sessions, id).messages \o sessionRequest[r].messages
           after == Stored(sessions', id).messages
       IN /\ (AnswerStep(r) /\ http'[r].body.kind # "chat.completion") =>
               \A s \in SessionIds : Stored(sessions', s) = Stored(sessions, s)
          /\ (AnswerStep(r) /\ http'[r].body.kind = "chat.completion") =>
               /\ Len(after) = Min(Len(saved) + 1, MAX_RECENT_MESSAGES)
               /\ after[Len(after)].role = "assistant"
               /\ SubSeq(after, 1, Len(after) - 1)
                    = SubSeq(saved, Len(saved) - Len(after) + 2, Len(saved))
               /\ \A s \in SessionIds \ {id} : Stored(sessions', s) = Stored(sessions, s)
          /\ (pc[r] = "idle" /\ pc'[r] # "idle") =>
               \A s \in SessionIds : Stored(sessions', s) = Stored(sessions, s)]_vars

\* A request failed on a session that holds what an earlier request saved.
C36_Witness ==
  \E r, q \in Requests :
    /\ r # q
    /\ pc[r] = "done" /\ pc[q] = "done"
    /\ sessionRequest[r].session_id = sessionRequest[q].session_id
    /\ sessionRequest[r].messages # << >>
    /\ http[q].body.kind = "chat.completion"
    /\ http[r].body.kind = "error" /\ http[r].status = 404
    /\ Len(Stored(sessions, sessionRequest[q].session_id).messages)
         = Len(sessionRequest[q].messages) + 1

====
